---------------------------- MODULE Spec2Model ----------------------------
(***************************************************************************)
(* The CHIP-8 machine of src/cpu.py driven by the host loop of             *)
(* src/emulator.py.  The machine state is the fields of class CPU; one     *)
(* step of the model is one call of CPU.cycle() made by main()'s loop.     *)
(* Every handler of cpu.py is an operator from the machine (a record of    *)
(* the fields of self) to the machine after the handler; the field         *)
(* `raised` is TRUE once a Python exception (IndexError) has left the      *)
(* handler, which nothing in main() catches.  The program image that       *)
(* load_game reads and the value of random.randint are the inputs.         *)
(***************************************************************************)
EXTENDS Integers, Sequences, FiniteSets

VARIABLES
    host,         \* where main() is: "init" (CPU() built), "loop", "raised"
    opcode,       \* self.opcode
    memory,       \* self.memory      bytearray(4096), its non-zero bytes
    registers,    \* self.registers   bytearray(16)
    I,            \* self.I           (a Python int: no width)
    pc,           \* self.pc          (a Python int: no width)
    gfx,          \* self.gfx         bytearray(64 * 32), its non-zero bytes
    delay_timer,  \* self.delay_timer
    sound_timer,  \* self.sound_timer
    stack,        \* self.stack       [0] * 16
    sp,           \* self.sp          (may go negative: Python indexes from the end)
    key,          \* self.key         [0] * 16
    drawFlag,     \* self.drawFlag
    beep,         \* whether the last cycle printed "BEEP"
    frame,        \* whether main() printed the framebuffer after the last cycle
    calls,        \* history: <<a, d>> of every 2nnn not yet returned from
    stored        \* history: <<I, x, registers>> of the last Fx55, while
                  \* memory is as that Fx55 left it

vars == <<host, opcode, memory, registers, I, pc, gfx, delay_timer,
          sound_timer, stack, sp, key, drawFlag, beep, frame, calls, stored>>

---------------------------------------------------------------------------
(* Sizes fixed by CPU.__init__ and draw_sprite.                            *)

MemorySize == 4096
NumRegisters == 16
GfxWidth == 64
GfxHeight == 32
GfxSize == GfxWidth * GfxHeight
StackSize == 16
NumKeys == 16
ProgramStart == 512

FONTSET ==
    << \hF0, \h90, \h90, \h90, \hF0,
       \h20, \h60, \h20, \h20, \h70,
       \hF0, \h10, \hF0, \h80, \hF0,
       \hF0, \h10, \hF0, \h10, \hF0,
       \h90, \h90, \hF0, \h10, \h10,
       \hF0, \h80, \hF0, \h10, \hF0,
       \hF0, \h80, \hF0, \h90, \hF0,
       \hF0, \h10, \h20, \h40, \h40,
       \hF0, \h90, \hF0, \h90, \hF0,
       \hF0, \h90, \hF0, \h10, \hF0,
       \hF0, \h90, \hF0, \h90, \h90,
       \hE0, \h90, \hE0, \h90, \hE0,
       \hF0, \h80, \h80, \h80, \hF0,
       \hE0, \h90, \h90, \h90, \hE0,
       \hF0, \h80, \hF0, \h80, \hF0,
       \hF0, \h80, \hF0, \h80, \h80 >>

---------------------------------------------------------------------------
(* Python's integer operators on non-negative ints.                        *)

Bit(a, i) == (a \div (2 ^ i)) % 2

AndBit(p, q) == p * q

OrBit(p, q) == IF p = 1 \/ q = 1 THEN 1 ELSE 0

XorBit(p, q) == IF p = q THEN 0 ELSE 1

(* The operators recurse four bits at a time.                              *)
RECURSIVE BitAnd(_, _)
BitAnd(a, b) ==
    IF a = 0 \/ b = 0 THEN 0
    ELSE AndBit(Bit(a, 0), Bit(b, 0)) + 2 * AndBit(Bit(a, 1), Bit(b, 1))
         + 4 * AndBit(Bit(a, 2), Bit(b, 2)) + 8 * AndBit(Bit(a, 3), Bit(b, 3))
         + 16 * BitAnd(a \div 16, b \div 16)

RECURSIVE BitOr(_, _)
BitOr(a, b) ==
    IF a = 0 THEN b
    ELSE IF b = 0 THEN a
    ELSE OrBit(Bit(a, 0), Bit(b, 0)) + 2 * OrBit(Bit(a, 1), Bit(b, 1))
         + 4 * OrBit(Bit(a, 2), Bit(b, 2)) + 8 * OrBit(Bit(a, 3), Bit(b, 3))
         + 16 * BitOr(a \div 16, b \div 16)

RECURSIVE BitXor(_, _)
BitXor(a, b) ==
    IF a = 0 THEN b
    ELSE IF b = 0 THEN a
    ELSE XorBit(Bit(a, 0), Bit(b, 0)) + 2 * XorBit(Bit(a, 1), Bit(b, 1))
         + 4 * XorBit(Bit(a, 2), Bit(b, 2)) + 8 * XorBit(Bit(a, 3), Bit(b, 3))
         + 16 * BitXor(a \div 16, b \div 16)

ShiftRight(a, k) == a \div (2 ^ k)

ShiftLeft(a, k) == a * (2 ^ k)

(* Python sequence indexing: 0 <= i < n is slot i, -n <= i < 0 is slot     *)
(* n + i, anything else raises IndexError.                                 *)
InRange(i, n) == -n <= i /\ i < n

Slot(i, n) == IF i < 0 THEN n + i ELSE i

(* A bytearray is held as the function from the indexes of its non-zero    *)
(* bytes to those bytes: every other index in range holds 0.  The indexes  *)
(* cpu.py computes are never negative; whether one is past the end is      *)
(* asked with InRange before the byte is read or written.                  *)
(* Mutant: the sequence is copied one byte too high.                       *)
BytesFromOne(seq) == [i \in {j \in 1..Len(seq) : seq[j] # 0} |-> seq[i]]

Bytes(seq) == [i \in {j \in 0..(Len(seq) - 1) : seq[j + 1] # 0} |-> seq[i + 1]]

ByteAt(buf, i) == IF i \in DOMAIN buf THEN buf[i] ELSE 0

SetByte(buf, i, v) ==
    [j \in (IF v = 0 THEN DOMAIN buf \ {i} ELSE DOMAIN buf \cup {i}) |->
        IF j = i THEN v ELSE buf[j]]

---------------------------------------------------------------------------
(* Operand fields of self.opcode, as every handler extracts them.          *)

Vx(self) == ShiftRight(BitAnd(self.opcode, \h0F00), 8)

Vy(self) == ShiftRight(BitAnd(self.opcode, \h00F0), 4)

kk(self) == BitAnd(self.opcode, \h00FF)

nnn(self) == BitAnd(self.opcode, \h0FFF)

Raise(self) == [self EXCEPT !.raised = TRUE]

---------------------------------------------------------------------------
(* The handlers of cpu.py.  self.pc has already been advanced by 2 when a  *)
(* handler runs (execute_instruction).                                     *)

(* Mutant: the unimplemented opcode is not consumed (the machine waits on  *)
(* it).                                                                    *)
not_implemented_waits(self) == [self EXCEPT !.pc = self.pc - 2]

not_implemented(self) == self

(* Mutant: the redraw is asked for, the pixels are left as they are.       *)
clear_display_keeps_pixels(self) == [self EXCEPT !.drawFlag = TRUE]

clear_display(self) ==
    [self EXCEPT !.gfx = Bytes(<<>>), !.drawFlag = TRUE]

return_from_subroutine(self) ==
    IF ~InRange(self.sp, StackSize) THEN Raise(self)
    ELSE [self EXCEPT !.pc = self.stack[Slot(self.sp, StackSize)],
                      !.sp = self.sp - 1]

jump_to_addr(self) == [self EXCEPT !.pc = nnn(self)]

(* Mutant: the address of the call itself is pushed, not the address of   *)
(* the instruction after it.                                               *)
call_addr_pushes_call(self) ==
    LET pushed == [self EXCEPT !.sp = self.sp + 1]
    IN  IF ~InRange(pushed.sp, StackSize) THEN Raise(pushed)
        ELSE [pushed EXCEPT !.stack[Slot(pushed.sp, StackSize)] = self.pc - 2,
                            !.pc = nnn(self)]

call_addr(self) ==
    LET pushed == [self EXCEPT !.sp = self.sp + 1]
    IN  IF ~InRange(pushed.sp, StackSize) THEN Raise(pushed)
        ELSE [pushed EXCEPT !.stack[Slot(pushed.sp, StackSize)] = self.pc,
                            !.pc = nnn(self)]

skip_next_instruction_if_registers_and_val_equal(self) ==
    IF self.registers[Vx(self)] = kk(self)
    THEN [self EXCEPT !.pc = self.pc + 2] ELSE self

skip_next_instruction_if_registers_and_val_not_equal(self) ==
    IF self.registers[Vx(self)] # kk(self)
    THEN [self EXCEPT !.pc = self.pc + 2] ELSE self

skip_next_instruction_if_registers_equal(self) ==
    IF self.registers[Vx(self)] = self.registers[Vy(self)]
    THEN [self EXCEPT !.pc = self.pc + 2] ELSE self

set_register_value(self) == [self EXCEPT !.registers[Vx(self)] = kk(self)]

add_register_value(self) ==
    [self EXCEPT !.registers[Vx(self)] =
        BitAnd(self.registers[Vx(self)] + kk(self), \hFF)]

set_register_to_register(self) ==
    [self EXCEPT !.registers[Vx(self)] = self.registers[Vy(self)]]

or_registers(self) ==
    [self EXCEPT !.registers[Vx(self)] =
        BitOr(self.registers[Vx(self)], self.registers[Vy(self)])]

and_registers(self) ==
    [self EXCEPT !.registers[Vx(self)] =
        BitAnd(self.registers[Vx(self)], self.registers[Vy(self)])]

xor_registers(self) ==
    [self EXCEPT !.registers[Vx(self)] =
        BitXor(self.registers[Vx(self)], self.registers[Vy(self)])]

(* The flag is written first; the sum stored afterwards reads the          *)
(* registers again, VF included.                                           *)
add_registers(self) ==
    LET flagged == [self EXCEPT !.registers[15] =
                      IF self.registers[Vx(self)] + self.registers[Vy(self)] > 255
                      THEN 1 ELSE 0]
    IN  [flagged EXCEPT !.registers[Vx(self)] =
            BitAnd(flagged.registers[Vx(self)] + flagged.registers[Vy(self)], \hFF)]

(* (a - b) & 0xFF of Python ints is the two's-complement low byte, which   *)
(* is (a - b) mod 256.                                                     *)
sub_registers(self) ==
    LET flagged == [self EXCEPT !.registers[15] =
                      IF self.registers[Vx(self)] > self.registers[Vy(self)]
                      THEN 1 ELSE 0]
    IN  [flagged EXCEPT !.registers[Vx(self)] =
            (flagged.registers[Vx(self)] - flagged.registers[Vy(self)]) % 256]

shift_right(self) ==
    LET flagged == [self EXCEPT !.registers[15] =
                      BitAnd(self.registers[Vx(self)], \h1)]
    IN  [flagged EXCEPT !.registers[Vx(self)] =
            BitAnd(ShiftRight(flagged.registers[Vx(self)], 1), \hFF)]

subn_registers(self) ==
    LET flagged == [self EXCEPT !.registers[15] =
                      IF self.registers[Vx(self)] < self.registers[Vy(self)]
                      THEN 0 ELSE 1]
    IN  [flagged EXCEPT !.registers[Vx(self)] =
            (flagged.registers[Vx(self)] - flagged.registers[Vy(self)]) % 256]

shift_left(self) ==
    LET flagged == [self EXCEPT !.registers[15] =
                      ShiftRight(BitAnd(self.registers[Vx(self)], \h80), 7)]
    IN  [flagged EXCEPT !.registers[Vx(self)] =
            BitAnd(ShiftLeft(flagged.registers[Vx(self)], 1), \hFF)]

(* Mutant: 9xy0 skips when the registers are equal.                        *)
skip_if_registers_eq(self) ==
    IF self.registers[Vx(self)] = self.registers[Vy(self)]
    THEN [self EXCEPT !.pc = self.pc + 2] ELSE self

skip_if_registers_neq(self) ==
    IF self.registers[Vx(self)] # self.registers[Vy(self)]
    THEN [self EXCEPT !.pc = self.pc + 2] ELSE self

load_index_reg_with_value(self) == [self EXCEPT !.I = nnn(self)]

jump_to_addr_plus_v0(self) == [self EXCEPT !.pc = self.registers[0] + nnn(self)]

(* Mutant: the random byte is stored without the mask.                     *)
set_random_register(self, r) ==
    [self EXCEPT !.registers[Vx(self)] = BitAnd(r, \hFF)]

(* r is the value of random.randint(0, 255).                               *)
set_random_register_and_kk(self, r) ==
    [self EXCEPT !.registers[Vx(self)] = BitAnd(BitAnd(r, kk(self)), \hFF)]

(* draw_sprite.  Every pixel reads self.registers again, so a collision   *)
(* written to VF moves the rest of a sprite drawn at VF.                   *)
(* The pixel index of draw_sprite for row yline and column xline, from the *)
(* registers as they are when it is evaluated.                             *)
pixel_index(self, yline, xline) ==
    (self.registers[Vy(self)] + yline) * 64 + (self.registers[Vx(self)] + xline)

(* Mutant: the pixel is set, not toggled.                                  *)
toggle_pixel_sets(self, yline, xline) ==
    LET tested == pixel_index(self, yline, xline)
    IN  IF ~InRange(tested, GfxSize) THEN Raise(self)
        ELSE LET flagged == IF ByteAt(self.gfx, tested) = 1
                            THEN [self EXCEPT !.registers[15] = 1] ELSE self
                 written == pixel_index(flagged, yline, xline)
             IN  IF ~InRange(written, GfxSize) THEN Raise(flagged)
                 ELSE [flagged EXCEPT
                         !.gfx = SetByte(@, written, BitOr(ByteAt(@, written), 1))]

(* The body of the inner loop for a set sprite bit: the collision test,    *)
(* then the toggle.  The pixel index is evaluated by each of the two       *)
(* statements, the second time after VF may have been set.                 *)
toggle_pixel(self, yline, xline) ==
    LET tested == pixel_index(self, yline, xline)
    IN  IF ~InRange(tested, GfxSize) THEN Raise(self)
        ELSE LET flagged == IF ByteAt(self.gfx, tested) = 1
                            THEN [self EXCEPT !.registers[15] = 1] ELSE self
                 written == pixel_index(flagged, yline, xline)
             IN  IF ~InRange(written, GfxSize) THEN Raise(flagged)
                 ELSE [flagged EXCEPT
                         !.gfx = SetByte(@, written, BitXor(ByteAt(@, written), 1))]

(* The inner loop of draw_sprite: the columns xline..7 of one row, whose    *)
(* byte is sprite.  A pixel index past the end of gfx raises and          *)
(* leaves the pixels drawn so far.                                         *)
RECURSIVE draw_columns(_, _, _, _)
draw_columns(self, sprite, yline, xline) ==
    IF xline = 8 \/ self.raised THEN self
    ELSE IF BitAnd(sprite, ShiftRight(\h80, xline)) = 0
         THEN draw_columns(self, sprite, yline, xline + 1)
         ELSE draw_columns(toggle_pixel(self, yline, xline), sprite, yline, xline + 1)

(* The outer loop of draw_sprite: the rows yline..height-1, each read from *)
(* memory[I + yline] before its first pixel (a read past the end of memory *)
(* raises), and drawFlag set after the last row.                           *)
RECURSIVE draw_rows(_, _, _)
draw_rows(self, yline, height) ==
    IF self.raised THEN self
    ELSE IF yline = height THEN [self EXCEPT !.drawFlag = TRUE]
    ELSE IF ~InRange(self.I + yline, MemorySize) THEN Raise(self)
    ELSE draw_rows(draw_columns(self, ByteAt(self.memory, self.I + yline), yline, 0),
                   yline + 1, height)

draw_sprite(self) ==
    draw_rows([self EXCEPT !.registers[15] = 0], 0, BitAnd(self.opcode, \h000F))

set_vx_to_delay_timer(self) ==
    [self EXCEPT !.registers[Vx(self)] = self.delay_timer]

wait_for_keypress(self) == not_implemented(self)

(* Mutant: the timer is loaded after the cycle's tick, so it still holds   *)
(* Vx when the cycle ends.                                                 *)
set_delay_timer_after_tick(self) ==
    [self EXCEPT !.delay_timer = self.registers[Vx(self)] + 1]

set_delay_timer_to_register(self) ==
    [self EXCEPT !.delay_timer = self.registers[Vx(self)]]

set_sound_timer_to_register(self) ==
    [self EXCEPT !.sound_timer = self.registers[Vx(self)]]

add_register_to_index(self) ==
    [self EXCEPT !.I = self.I + self.registers[Vx(self)]]

set_i_to_sprite_address(self) ==
    [self EXCEPT !.I = self.registers[Vx(self)] * 5]

(* memory[I + j] = v, or IndexError.                                       *)
store_byte(self, j, v) ==
    IF self.raised THEN self
    ELSE IF ~InRange(self.I + j, MemorySize) THEN Raise(self)
    ELSE [self EXCEPT !.memory = SetByte(@, self.I + j, v)]

set_bcd_of_register(self) ==
    LET value == self.registers[Vx(self)]
    IN  store_byte(
          store_byte(
            store_byte(self, 0, value \div 100),
            1, (value \div 10) % 10),
          2, value % 10)

RECURSIVE store_from(_, _, _)
store_from(self, i, last) ==
    IF i > last \/ self.raised THEN self
    ELSE store_from(store_byte(self, i, self.registers[i]), i + 1, last)

(* Mutant: Fx55 stores V0..Vx-1 only.                                      *)
store_registers_below_x(self) == store_from(self, 0, Vx(self) - 1)

store_registers(self) == store_from(self, 0, Vx(self))

RECURSIVE load_from(_, _, _)
load_from(self, i, last) ==
    IF i > last THEN self
    ELSE IF ~InRange(self.I + i, MemorySize) THEN Raise(self)
    ELSE load_from([self EXCEPT !.registers[i] = ByteAt(self.memory, self.I + i)],
                   i + 1, last)

load_registers(self) == load_from(self, 0, Vx(self))

---------------------------------------------------------------------------
(* Dispatch: operations_table, logic_operations_table, misc_table.         *)

execute_zero(self) ==
    LET operation == BitAnd(self.opcode, \h00FF)
    IN  IF operation = \hE0 THEN clear_display(self)
        ELSE IF operation = \hEE THEN return_from_subroutine(self)
        ELSE self

execute_logic_operations(self) ==
    LET operation == BitAnd(self.opcode, \h000F)
    IN  CASE operation = \h0 -> set_register_to_register(self)
          [] operation = \h1 -> or_registers(self)
          [] operation = \h2 -> and_registers(self)
          [] operation = \h3 -> xor_registers(self)
          [] operation = \h4 -> add_registers(self)
          [] operation = \h5 -> sub_registers(self)
          [] operation = \h6 -> shift_right(self)
          [] operation = \h7 -> subn_registers(self)
          [] operation = \hE -> shift_left(self)
          [] OTHER -> not_implemented(self)

execute_misc(self) ==
    LET operation == BitAnd(self.opcode, \h00FF)
    IN  CASE operation = \h07 -> set_vx_to_delay_timer(self)
          [] operation = \h0A -> wait_for_keypress(self)
          [] operation = \h15 -> set_delay_timer_to_register(self)
          [] operation = \h18 -> set_sound_timer_to_register(self)
          [] operation = \h1E -> add_register_to_index(self)
          [] operation = \h29 -> set_i_to_sprite_address(self)
          [] operation = \h33 -> set_bcd_of_register(self)
          [] operation = \h55 -> store_registers(self)
          [] operation = \h65 -> load_registers(self)
          [] OTHER -> not_implemented(self)

execute_instruction(self, r) ==
    LET operation == ShiftRight(BitAnd(self.opcode, \hF000), 12)
        s == [self EXCEPT !.pc = self.pc + 2]
    IN  CASE operation = \h0 -> execute_zero(s)
          [] operation = \h1 -> jump_to_addr(s)
          [] operation = \h2 -> call_addr(s)
          [] operation = \h3 -> skip_next_instruction_if_registers_and_val_equal(s)
          [] operation = \h4 -> skip_next_instruction_if_registers_and_val_not_equal(s)
          [] operation = \h5 -> skip_next_instruction_if_registers_equal(s)
          [] operation = \h6 -> set_register_value(s)
          [] operation = \h7 -> add_register_value(s)
          [] operation = \h8 -> execute_logic_operations(s)
          [] operation = \h9 -> skip_if_registers_neq(s)
          [] operation = \hA -> load_index_reg_with_value(s)
          [] operation = \hB -> jump_to_addr_plus_v0(s)
          [] operation = \hC -> set_random_register_and_kk(s, r)
          [] operation = \hD -> draw_sprite(s)
          [] operation = \hE -> not_implemented(s)
          [] operation = \hF -> execute_misc(s)

(* Mutant: "BEEP" is printed in every cycle that finds the sound timer    *)
(* running.                                                                *)
tick_timers_beeps_while_running(self) ==
    [self EXCEPT
        !.delay_timer = IF self.delay_timer > 0 THEN self.delay_timer - 1 ELSE @,
        !.beep = (self.sound_timer > 0),
        !.sound_timer = IF self.sound_timer > 0 THEN self.sound_timer - 1 ELSE @]

(* The timer code at the end of cycle(): "BEEP" is printed when the sound  *)
(* timer is 1 before its decrement.                                        *)
tick_timers(self) ==
    [self EXCEPT
        !.delay_timer = IF self.delay_timer > 0 THEN self.delay_timer - 1 ELSE @,
        !.beep = (self.sound_timer > 0 /\ self.sound_timer = 1),
        !.sound_timer = IF self.sound_timer > 0 THEN self.sound_timer - 1 ELSE @]

(* The fetch reads memory[pc] and memory[pc + 1]; either raises past the   *)
(* end of memory, before self.opcode is assigned.                          *)
FetchRaises(self) ==
    ~InRange(self.pc, MemorySize) \/ ~InRange(self.pc + 1, MemorySize)

Fetch(mem, at) == BitOr(ShiftLeft(ByteAt(mem, at), 8), ByteAt(mem, at + 1))

cycle(self, r) ==
    IF FetchRaises(self) THEN Raise(self)
    ELSE LET fetched == [self EXCEPT !.opcode = Fetch(self.memory, self.pc)]
             executed == execute_instruction(fetched, r)
         IN  IF executed.raised THEN executed ELSE tick_timers(executed)

---------------------------------------------------------------------------
(* Program images.  A program is a sequence of 16-bit words, stored        *)
(* big-endian from ProgramStart on; word i is at ProgramStart + 2 * (i-1). *)

Op(a, b, c, d) == a * 4096 + b * 256 + c * 16 + d

AddressOfWord(i) == ProgramStart + 2 * (i - 1)

(* 1nnn jumping to itself: the program stays there.                        *)
HaltAt(i) == Op(1, 0, 0, 0) + AddressOfWord(i)

WithHalt(words) == Append(words, HaltAt(Len(words) + 1))

RomBytes(words) ==
    [i \in 1..(2 * Len(words)) |->
        IF i % 2 = 1 THEN words[(i + 1) \div 2] \div 256
        ELSE words[i \div 2] % 256]

(* Bounds of the program images and of the random source.                  *)
MaxRandLow == 1
MaxTimer == 5
MaxNest == 16
MaxI == 65535

(* The values random.randint(0, 255) is taken to return: both ends of the  *)
(* byte range and two values whose sum carries.                            *)
RandomBytes ==
    {r \in 0..255 : r <= MaxRandLow \/ r >= 255 - MaxRandLow \/ r \in {100, 200}}

(* Two random operands, then one 8xyN.                                     *)
AluPairs == {<<0, 1>>, <<14, 2>>, <<0, 15>>, <<15, 1>>, <<3, 3>>}

AluRoms ==
    {WithHalt(<<Op(12, p[1], 15, 15), Op(12, p[2], 15, 15), Op(8, p[1], p[2], N)>>) :
        p \in AluPairs, N \in 0..15}

(* Both timers loaded from V0, a glyph drawn, then one opcode that the     *)
(* dispatch tables do not implement (or a 0nE0 / Fx07 to compare with).    *)
OddOps ==
    {\h0000, \h0123, \h00E1, \h01E0, \h00E0, \hE09E, \hE1A1, \hEFFF,
     \h8018, \h812F, \h8239, \hF000, \hF00A, \hF30A, \hF1FF, \hF075, \hF107}

TimerRoms ==
    {WithHalt(<<Op(6, 0, 0, t), \hF015, \hF018, \hD005, op>>) :
        t \in 0..MaxTimer, op \in OddOps}

(* A 2-row sprite (FF, 81) stored after the program, drawn at (Vx, Vy),    *)
(* and drawn again 4 columns to the right.                                 *)
DrawXs == {0, 52, 56, 60, 63, 64, 255}
DrawYs == {0, 30, 31, 32, 255}
DrawRows == {0, 1, 2}
DrawRegs == {<<0, 1>>, <<15, 1>>, <<2, 2>>}

DrawRoms ==
    {<<\hA20E, Op(6, g[1], 0, 0) + x, Op(6, g[2], 0, 0) + y,
       Op(13, g[1], g[2], n), Op(7, g[1], 0, 4), Op(13, g[1], g[2], n),
       HaltAt(7), \hFF81>> :
        x \in DrawXs, y \in DrawYs, n \in DrawRows, g \in DrawRegs}

(* k nested calls, every one followed by the 00EE its callee returns to;   *)
(* the outermost returns to a halt.                                        *)
NestRom(k) ==
    [i \in 1..(2 * k + 1) |->
        IF i = 2 THEN HaltAt(2)
        ELSE IF i % 2 = 1 /\ i < 2 * k + 1 THEN Op(2, 0, 0, 0) + AddressOfWord(i + 2)
        ELSE \h00EE]

NestRoms == {NestRom(k) : k \in 1..MaxNest}

(* Programs that leave memory, the screen or the stack.                    *)
EdgeRoms ==
    { <<\h1FFE>>,                                 \* run off the end of memory
      <<\h1FFF>>,                                 \* fetch at the last byte
      <<\h60FF, \hBFFF>>,                         \* jump past memory
      <<\h2200>>,                                 \* call itself for ever
      <<\hAFFF, \hD002, \h1204>>,                 \* sprite past memory
      <<\hAFFE, \h607B, \hF033, \h1206>>,         \* BCD past memory
      <<\hAFFF, \hF155, \h1204>>,                 \* block store past memory
      <<\hAFFF, \hF165, \h1204>>,                 \* block load past memory
      <<\h2204, \h1202, \h01EE>> }                \* 0nEE returns as 00EE does

(* V0 and V1 loaded, then one conditional skip; the words after it are the *)
(* instruction that is skipped and the one that is skipped to.             *)
SkipValues == {<<7, 7>>, <<7, 9>>, <<0, 7>>}

SkipOps == {\h3007, \h4007, \h5010, \h9010}

SkipRoms ==
    {<<Op(6, 0, 0, 0) + v[1], Op(6, 1, 0, 0) + v[2], op, HaltAt(4), HaltAt(5)>> :
        v \in SkipValues, op \in SkipOps}

(* Fx29 for values of Vx below, at and above 16.                           *)
GlyphValues == {0, 1, 9, 15, 16, 17, 51, 255}

GlyphRoms == {WithHalt(<<Op(6, 0, 0, 0) + v, \hF029>>) : v \in GlyphValues}

(* I set to an address inside, across the end of and outside the font      *)
(* table, or at the end of memory; then a BCD store, or V0..V2 stored by   *)
(* Fx55, overwritten and loaded again by Fx65.                             *)
IndexValues == {\h000, \h04E, \h050, \h300, \hFFD, \hFFE}

BcdValues == {0, 123, 255}

BcdRoms ==
    {WithHalt(<<Op(10, 0, 0, 0) + at, Op(6, 3, 0, 0) + v, \hF333>>) :
        at \in IndexValues, v \in BcdValues}

BlockRoms ==
    {WithHalt(<<Op(10, 0, 0, 0) + at, \h6011, \h6122, \h6233, Op(15, x, 5, 5),
                \h60AA, \h61BB, \h62CC, Op(15, x, 6, 5)>>) :
        at \in IndexValues, x \in {0, 1, 2, 15}}

(* One Cxkk, with a mask that keeps no, some or all of the random bits.    *)
RandomMasks == {\h00, \h0F, \hA5}

RandomRoms == {WithHalt(<<Op(12, 3, 0, 0) + mask>>) : mask \in RandomMasks}

(* Fx1E adding 255 to I for ever; both timers running down from 255; and   *)
(* programs whose first opcode is a clear-screen or is not.                *)
LoopRoms ==
    { <<\h60FF, \hAFFF, \hF01E, \h1204>>,
      WithHalt(<<\h60FF, \hF015, \hF018>>),
      WithHalt(<<\h00E0>>),
      WithHalt(<<\h01E0>>),
      WithHalt(<<\h6000>>) }

Roms ==
    AluRoms \cup TimerRoms \cup DrawRoms \cup NestRoms \cup EdgeRoms
        \cup SkipRoms \cup GlyphRoms \cup BcdRoms \cup BlockRoms \cup RandomRoms
        \cup LoopRoms

(* load_game: rom[index] goes to memory[self.pc + index], for every index  *)
(* of the file; the other bytes of memory stay.                            *)
load_game(mem, at, rom) ==
    LET written == {at + index : index \in 0..(Len(rom) - 1)}
        kept == DOMAIN mem \ written
        set == {j \in written : rom[j - at + 1] # 0}
    IN  [j \in kept \cup set |-> IF j \in set THEN rom[j - at + 1] ELSE mem[j]]

---------------------------------------------------------------------------
(* The state machine: CPU() built, the program loaded, then the loop of    *)
(* main() calling cycle().                                                 *)

Self ==
    [opcode |-> opcode, memory |-> memory, registers |-> registers, I |-> I,
     pc |-> pc, gfx |-> gfx, delay_timer |-> delay_timer,
     sound_timer |-> sound_timer, stack |-> stack, sp |-> sp, key |-> key,
     drawFlag |-> drawFlag, beep |-> FALSE, raised |-> FALSE]

IsCall(op) == ShiftRight(BitAnd(op, \hF000), 12) = 2

IsStore(op) == ShiftRight(BitAnd(op, \hF000), 12) = 15 /\ BitAnd(op, \h00FF) = \h55

IsReturn(op) == ShiftRight(BitAnd(op, \hF000), 12) = 0 /\ BitAnd(op, \h00FF) = \hEE

Init ==
    /\ host = "init"
    /\ opcode = 0
    /\ memory = Bytes(FONTSET)
    /\ registers = [i \in 0..(NumRegisters - 1) |-> 0]
    /\ I = 0
    /\ pc = ProgramStart
    /\ gfx = Bytes(<<>>)
    /\ delay_timer = 0
    /\ sound_timer = 0
    /\ stack = [i \in 0..(StackSize - 1) |-> 0]
    /\ sp = 0
    /\ key = [i \in 0..(NumKeys - 1) |-> 0]
    /\ drawFlag = FALSE
    /\ beep = FALSE
    /\ frame = FALSE
    /\ calls = <<>>
    /\ stored = <<>>

LoadGame ==
    /\ host = "init"
    /\ \E words \in Roms : memory' = load_game(memory, pc, RomBytes(words))
    /\ host' = "loop"
    /\ UNCHANGED <<opcode, registers, I, pc, gfx, delay_timer, sound_timer,
                   stack, sp, key, drawFlag, beep, frame, calls, stored>>

(* random.randint is called by Cxkk alone: only then is there a draw.       *)
RandomDraws ==
    IF ~FetchRaises(Self) /\ ShiftRight(BitAnd(Fetch(memory, pc), \hF000), 12) = 12
    THEN RandomBytes ELSE {0}

(* One turn of main()'s loop: cycle(), then the framebuffer is printed if  *)
(* drawFlag is set.  main() loops for ever; the model stops once I is      *)
(* above MaxI.                                                             *)
Cycle ==
    /\ host = "loop"
    /\ I <= MaxI
    /\ \E r \in RandomDraws :
         LET s == cycle(Self, r)
         IN  /\ host' = IF s.raised THEN "raised" ELSE "loop"
             /\ opcode' = s.opcode
             /\ memory' = s.memory
             /\ registers' = s.registers
             /\ I' = s.I
             /\ pc' = s.pc
             /\ gfx' = s.gfx
             /\ delay_timer' = s.delay_timer
             /\ sound_timer' = s.sound_timer
             /\ stack' = s.stack
             /\ sp' = s.sp
             /\ key' = s.key
             /\ drawFlag' = s.drawFlag
             /\ beep' = s.beep
             /\ frame' = (~s.raised /\ s.drawFlag)
             /\ calls' = IF s.raised \/ FetchRaises(Self) THEN calls
                         ELSE IF IsCall(s.opcode) THEN Append(calls, <<pc, sp>>)
                         ELSE IF IsReturn(s.opcode) /\ calls # <<>>
                              THEN SubSeq(calls, 1, Len(calls) - 1)
                         ELSE calls
             /\ stored' = IF s.raised \/ FetchRaises(Self) THEN stored
                          ELSE IF IsStore(s.opcode)
                               THEN << <<I, Vx(s), registers>> >>
                          ELSE IF s.memory # memory THEN <<>>
                          ELSE stored

Next == LoadGame \/ Cycle

Spec == Init /\ [][Next]_vars

---------------------------------------------------------------------------
(* What the properties below speak of: the cycle about to run, and the     *)
(* fields of the opcode it fetches, decoded by division.                   *)

Fetches == host = "loop" /\ ~FetchRaises(Self)

Fetched == Fetch(memory, pc)

Family(op) == op \div 4096
FieldX(op) == (op \div 256) % 16
FieldY(op) == (op \div 16) % 16
FieldN(op) == op % 16
FieldKK(op) == op % 256

Fetching(fam) == Fetches /\ Family(Fetched) = fam

Ticked(t) == IF t > 0 THEN t - 1 ELSE 0

---------------------------------------------------------------------------
(* C1: no cycle is fatal: from every reachable state a call of cycle()     *)
(* completes without raising, so a further cycle can always be executed.   *)
C1_NoCycleIsFatal == host # "raised"

---------------------------------------------------------------------------
(* C2 as stated: a cycle whose opcode is 0nnn other than 00E0/00EE, of the *)
(* 0xE family, 8xyN with N not in {0..7, E}, or Fxkk with kk not an        *)
(* implemented entry of the misc table (Fx0A included) leaves registers,   *)
(* memory, I, stack, stack pointer, both timers and the framebuffer        *)
(* unchanged, and the program counter is the old one plus 2.               *)
MiscImplemented == {\h07, \h15, \h18, \h1E, \h29, \h33, \h55, \h65}

LogicImplemented == (0..7) \cup {14}

StatedUnrecognized(op) ==
    \/ Family(op) = 0 /\ op \notin {\h00E0, \h00EE}
    \/ Family(op) = 14
    \/ Family(op) = 8 /\ FieldN(op) \notin LogicImplemented
    \/ Family(op) = 15 /\ FieldKK(op) \notin MiscImplemented

MachineKept ==
    /\ registers' = registers
    /\ memory' = memory
    /\ I' = I
    /\ stack' = stack
    /\ sp' = sp
    /\ gfx' = gfx

Unrecognized(op) ==
    \/ Family(op) = 0 /\ FieldKK(op) \notin {\hE0, \hEE}
    \/ Family(op) = 14
    \/ Family(op) = 8 /\ FieldN(op) \notin LogicImplemented
    \/ Family(op) = 15 /\ FieldKK(op) \notin MiscImplemented

---------------------------------------------------------------------------
(* The sprite of the Dxyn about to run: its n rows at memory[I..I+n-1],    *)
(* its position (Vx, Vy), and the set bits (row, col) of its rows.         *)
SpriteInMemory == I + FieldN(Fetched) <= MemorySize

SpriteX == registers[FieldX(Fetched)]

SpriteY == registers[FieldY(Fetched)]

SpriteBits ==
    {b \in (0..(FieldN(Fetched) - 1)) \X (0..7) :
        (ByteAt(memory, I + b[1]) \div (2 ^ (7 - b[2]))) % 2 = 1}

Pixel(p) == ByteAt(gfx, p)

(* after the draw every pixel under one of `pixels` is the opposite of     *)
(* what it was, and every other pixel is what it was.                      *)
Toggles(pixels) ==
    \A p \in 0..(GfxSize - 1) :
        ByteAt(gfx', p) = IF p \in pixels THEN 1 - Pixel(p) ELSE Pixel(p)

(* C3: Dxyn wraps on both axes: the pixel toggled for the set sprite bit   *)
(* (row, col) is the one at ((Vy+row) mod 32)*64 + ((Vx+col) mod 64), and  *)
(* the draw does not fail, whatever Vx and Vy are.  (Stated for x, y       *)
(* other than 0xF, whose value the draw itself rewrites.)                  *)
WrappedPixels ==
    {((SpriteY + b[1]) % GfxHeight) * GfxWidth + ((SpriteX + b[2]) % GfxWidth) :
        b \in SpriteBits}

C3_DrawWraps ==
    [][(Fetching(13) /\ SpriteInMemory
          /\ FieldX(Fetched) # 15 /\ FieldY(Fetched) # 15) =>
          /\ host' = "loop"
          /\ Toggles(WrappedPixels)]_vars

(* C4: for x, y other than 0xF and a sprite (its n rows in memory) that    *)
(* lies fully on screen, after Dxyn every pixel is its old value XOR the   *)
(* sprite bit over it, VF is 1 iff a pixel lit before was turned off and   *)
(* 0 otherwise, and drawFlag is true.                                      *)
OnScreen ==
    /\ SpriteX + 7 < GfxWidth
    /\ SpriteY + FieldN(Fetched) - 1 < GfxHeight
    /\ SpriteY < GfxHeight

PlainPixels == {(SpriteY + b[1]) * GfxWidth + (SpriteX + b[2]) : b \in SpriteBits}

C4_DrawXorsOnScreen ==
    [][(Fetching(13) /\ SpriteInMemory /\ OnScreen
          /\ FieldX(Fetched) # 15 /\ FieldY(Fetched) # 15) =>
          /\ host' = "loop"
          /\ Toggles(PlainPixels)
          /\ registers'[15] = (IF \E p \in PlainPixels : Pixel(p) = 1 THEN 1 ELSE 0)
          /\ drawFlag' = TRUE]_vars

(* The second draw of the sprite FF/81, 4 columns right of the first at    *)
(* (52, 30): columns 56..59 of row 30 collided and went dark, 52..55 stay  *)
(* lit, 60..63 are newly lit, VF = 1.                                       *)
C4_Witness ==
    /\ host = "loop"
    /\ opcode = \hD012
    /\ registers[0] = 56 /\ registers[1] = 30
    /\ registers[15] = 1
    /\ drawFlag
    /\ \A c \in 52..55 : Pixel(30 * GfxWidth + c) = 1
    /\ \A c \in 56..59 : Pixel(30 * GfxWidth + c) = 0
    /\ \A c \in 60..63 : Pixel(30 * GfxWidth + c) = 1

---------------------------------------------------------------------------
(* C5: call/return round trip.  `calls` holds, innermost last, the address *)
(* a and the stack depth d of every 2nnn whose return has not yet run, so  *)
(* a 00EE that finds it non-empty is the return matching its last entry,   *)
(* with balanced calls and returns in between.  For a call made at a depth *)
(* d >= 0 that return completes, sets the program counter to a + 2 and the *)
(* stack pointer back to d.                                                *)
Returning == Fetching(0) /\ FieldKK(Fetched) = \hEE

C5_CallReturnRoundTrip ==
    [][(Returning /\ calls # <<>> /\ calls[Len(calls)][2] >= 0) =>
          /\ host' = "loop"
          /\ pc' = calls[Len(calls)][1] + 2
          /\ sp' = calls[Len(calls)][2]]_vars

(* The return matching the 3rd of 5 nested calls has run: two calls are    *)
(* still open, the machine is back after the 3rd call, at depth 2.         *)
C5_Witness ==
    /\ host = "loop"
    /\ opcode = \h00EE
    /\ Len(calls) = 2
    /\ sp = 2
    /\ pc = AddressOfWord(5) + 2
    /\ stack[5] = AddressOfWord(9) + 2

(* C6: the call stack has room for 16 return addresses: a 2nnn executed    *)
(* with fewer than 16 calls open, all nested from the initial state        *)
(* (stack pointer = number of open calls, 0..15), completes and is one     *)
(* deeper, so 16 nested calls from the initial state all complete.         *)
C6_SixteenNestedCalls ==
    [][(Fetching(2) /\ Len(calls) = sp /\ sp < StackSize) =>
          /\ host' = "loop"
          /\ sp' = sp + 1]_vars

---------------------------------------------------------------------------
(* C7: 8xy4, x in 0..E, y in 0..F: Vx becomes (old Vx + old Vy) mod 256    *)
(* and VF becomes 1 if old Vx + old Vy > 255, else 0.                      *)
Logic(n) == Fetching(8) /\ FieldN(Fetched) = n /\ FieldX(Fetched) # 15

OldVx == registers[FieldX(Fetched)]

OldVy == registers[FieldY(Fetched)]

C7_AddWithCarry ==
    [][Logic(4) =>
          /\ registers'[FieldX(Fetched)] = (OldVx + OldVy) % 256
          /\ registers'[15] = (IF OldVx + OldVy > 255 THEN 1 ELSE 0)]_vars

(* C8: 8xy5, x in 0..E, y in 0..F: Vx becomes (old Vx - old Vy) mod 256    *)
(* and VF becomes 1 if old Vx > old Vy, else 0.                            *)
C8_SubtractWithFlag ==
    [][Logic(5) =>
          /\ registers'[FieldX(Fetched)] = (OldVx - OldVy) % 256
          /\ registers'[15] = (IF OldVx > OldVy THEN 1 ELSE 0)]_vars

(* C9: 8xy7, x in 0..E, y in 0..F: Vx becomes (old Vy - old Vx) mod 256,   *)
(* and VF becomes 1 when old Vx >= old Vy, 0 when old Vx < old Vy.         *)
C9_ReversedSubtract ==
    [][Logic(7) =>
          /\ registers'[FieldX(Fetched)] = (OldVy - OldVx) % 256
          /\ registers'[15] = (IF OldVx >= OldVy THEN 1 ELSE 0)]_vars

---------------------------------------------------------------------------
(* C10: a cycle prints "BEEP" exactly when the sound timer is 1 just       *)
(* before that cycle's decrement: that is the value Fx18 writes in the     *)
(* same cycle, and the value the timer held otherwise.  The cycle leaves   *)
(* the timer one lower (0 stays 0), so a timer holding k >= 1 that is not  *)
(* rewritten beeps once, in the k-th following cycle, and never again.     *)
SoundBeforeDecrement ==
    IF Family(Fetched) = 15 /\ FieldKK(Fetched) = \h18
    THEN registers[FieldX(Fetched)] ELSE sound_timer

C10_BeepWhenSoundTimerIsOne ==
    [][(Fetches /\ host' = "loop") =>
          /\ beep' = (SoundBeforeDecrement = 1)
          /\ sound_timer' = Ticked(SoundBeforeDecrement)]_vars

(* The sound timer was loaded with 5 by F018 and has counted down to 0 in  *)
(* the program's halt loop: the cycle that took it from 1 to 0 beeped.     *)
C10_Witness ==
    /\ host = "loop"
    /\ beep
    /\ sound_timer = 0
    /\ registers[0] = 5
    /\ Family(opcode) = 1
    /\ ByteAt(memory, ProgramStart + 4) = \hF0
    /\ ByteAt(memory, ProgramStart + 5) = \h18

---------------------------------------------------------------------------
(* C11: at the end of every cycle each timer is max(0, v - 1), v being its *)
(* value after the handler ran: the value Fx15 (delay) or Fx18 (sound)     *)
(* wrote in that cycle, and the value the timer held otherwise.  So a      *)
(* timer loaded with k > 0 holds k - 1 at the end of the same cycle, a     *)
(* timer at 0 stays 0, a timer that is not rewritten goes down by one a    *)
(* cycle until it is 0, and both timers are in 0..255.                     *)
DelayBeforeDecrement ==
    IF Family(Fetched) = 15 /\ FieldKK(Fetched) = \h15
    THEN registers[FieldX(Fetched)] ELSE delay_timer

C11_TimersTick ==
    [][(Fetches /\ host' = "loop") =>
          /\ delay_timer' = Ticked(DelayBeforeDecrement)
          /\ sound_timer' = Ticked(SoundBeforeDecrement)
          /\ delay_timer' \in 0..255
          /\ sound_timer' \in 0..255]_vars

(* F015 has just loaded the delay timer from V0 = 255: it holds 254, and   *)
(* the sound timer, not yet loaded, is still 0.                            *)
C11_Witness ==
    /\ host = "loop"
    /\ opcode = \hF015
    /\ registers[0] = 255
    /\ delay_timer = 254
    /\ sound_timer = 0

---------------------------------------------------------------------------
(* C12: the font table is immutable: in every state reached by executing   *)
(* cycles memory[0..79] is the font table written at construction,         *)
(* whatever Fx33 and Fx55 did with whatever I.                             *)
C12_FontIsImmutable ==
    \A i \in 0..(Len(FONTSET) - 1) : ByteAt(memory, i) = FONTSET[i + 1]

---------------------------------------------------------------------------
(* C13: in every reachable state I and the program counter are 16-bit      *)
(* values, 0..0xFFFF, whatever Fx1E added to I, wherever Bnnn jumped and   *)
(* however far the program counter advanced.                               *)
C13_SixteenBitIndexAndCounter ==
    /\ 0 <= I /\ I <= \hFFFF
    /\ 0 <= pc /\ pc <= \hFFFF

---------------------------------------------------------------------------
(* C14: a freshly constructed machine has the 80 bytes of the font table   *)
(* at memory[0..79], glyph g at 5 * g, and zeros at memory[80..4095]; its  *)
(* program counter is 0x200, its 16 registers, I, stack pointer and both   *)
(* timers are 0, every pixel is unlit, every key unpressed and drawFlag    *)
(* false.                                                                  *)
Fresh == host = "init"

C14_FreshMachine ==
    Fresh =>
        /\ Len(FONTSET) = 16 * 5
        /\ \A g \in 0..15 : \A row \in 0..4 :
                ByteAt(memory, 5 * g + row) = FONTSET[5 * g + row + 1]
        /\ \A a \in 80..(MemorySize - 1) : ByteAt(memory, a) = 0
        /\ pc = \h200
        /\ \A x \in 0..15 : registers[x] = 0
        /\ I = 0
        /\ sp = 0
        /\ delay_timer = 0 /\ sound_timer = 0
        /\ \A p \in 0..(64 * 32 - 1) : ByteAt(gfx, p) = 0
        /\ \A k \in 0..15 : key[k] = 0
        /\ drawFlag = FALSE

(* The machine as constructed: glyph F, the last one, is in its place at   *)
(* memory[75..79] with nothing after it, and no program is loaded yet.     *)
C14_Witness ==
    /\ Fresh
    /\ ByteAt(memory, 75) = \hF0
    /\ ByteAt(memory, 79) = \h80
    /\ DOMAIN memory \subseteq 0..79
    /\ pc = ProgramStart

---------------------------------------------------------------------------
(* C15: 00E0, from any state, leaves every one of the 64 * 32 pixels unlit *)
(* and drawFlag true; the program counter moves by 2, each timer takes the *)
(* cycle's tick, and registers, memory, I, stack, stack pointer and keys   *)
(* are unchanged.                                                          *)
C15_ClearScreen ==
    [][(Fetches /\ Fetched = \h00E0) =>
          /\ host' = "loop"
          /\ \A p \in 0..(64 * 32 - 1) : ByteAt(gfx', p) = 0
          /\ drawFlag' = TRUE
          /\ pc' = pc + 2
          /\ delay_timer' = Ticked(delay_timer)
          /\ sound_timer' = Ticked(sound_timer)
          /\ registers' = registers
          /\ memory' = memory
          /\ I' = I
          /\ stack' = stack
          /\ sp' = sp
          /\ key' = key]_vars

(* 00E0 has run as the 5th instruction of a program that had drawn glyph 0 *)
(* at (5, 5) and started both timers at 5: the screen is dark, the timers  *)
(* have counted on.                                                        *)
C15_Witness ==
    /\ host = "loop"
    /\ opcode = \h00E0
    /\ pc = ProgramStart + 10
    /\ registers[0] = 5
    /\ DOMAIN gfx = {}
    /\ drawFlag
    /\ delay_timer = 1
    /\ sound_timer = 2

---------------------------------------------------------------------------
(* Two machines in the state the cycle starts from: this one, whose cycle  *)
(* is the step taken, and another one whose random.randint returns r.      *)
Other(r) == cycle(Self, r)

AgreeOutsideRegisters(other) ==
    /\ (host' = "raised") = other.raised
    /\ memory' = other.memory
    /\ I' = other.I
    /\ pc' = other.pc
    /\ stack' = other.stack
    /\ sp' = other.sp
    /\ delay_timer' = other.delay_timer
    /\ sound_timer' = other.sound_timer
    /\ gfx' = other.gfx
    /\ key' = other.key

---------------------------------------------------------------------------
(* C17: a conditional skip fetched at address a (3xkk: Vx = kk, 4xkk:      *)
(* Vx # kk, 5xy0: Vx = Vy, 9xy0: Vx # Vy) ends with the program counter at *)
(* a + 4 when its condition holds and at a + 2 when it does not, and       *)
(* changes no register, memory cell, I, stack entry or pixel.              *)
IsSkip(op) ==
    \/ Family(op) \in {3, 4}
    \/ Family(op) \in {5, 9} /\ FieldN(op) = 0

SkipCondition(op) ==
    CASE Family(op) = 3 -> registers[FieldX(op)] = FieldKK(op)
      [] Family(op) = 4 -> registers[FieldX(op)] # FieldKK(op)
      [] Family(op) = 5 -> registers[FieldX(op)] = registers[FieldY(op)]
      [] Family(op) = 9 -> registers[FieldX(op)] # registers[FieldY(op)]

C17_ConditionalSkips ==
    [][(Fetches /\ IsSkip(Fetched)) =>
          /\ host' = "loop"
          /\ pc' = (IF SkipCondition(Fetched) THEN pc + 4 ELSE pc + 2)
          /\ registers' = registers
          /\ memory' = memory
          /\ I' = I
          /\ stack' = stack
          /\ gfx' = gfx]_vars

(* 9010 fetched at 0x204 with V0 = 7 and V1 = 9 has skipped the            *)
(* instruction at 0x206.                                                   *)
C17_Witness ==
    /\ host = "loop"
    /\ opcode = \h9010
    /\ registers[0] = 7
    /\ registers[1] = 9
    /\ pc = \h208

---------------------------------------------------------------------------
(* C18: Fx29 sets I to the address of the glyph of the low nibble of Vx:   *)
(* for every Vx in 0..255, I = 5 * (Vx mod 16) afterwards, one of the 16   *)
(* glyph offsets 0, 5, ..., 75.                                            *)
C18_GlyphAddressOfLowNibble ==
    [][(Fetching(15) /\ FieldKK(Fetched) = \h29) =>
          /\ I' = 5 * (registers[FieldX(Fetched)] % 16)
          /\ I' \in {5 * g : g \in 0..15}]_vars

---------------------------------------------------------------------------
(* C19: block store and load.  With memory[I..I+x] in memory, Fx55 copies  *)
(* V0..Vx to memory[I..I+x] and Fx65 copies memory[I..I+x] to V0..Vx, each *)
(* leaving I, the registers above x and the memory outside I..I+x as they  *)
(* were; hence an Fx65 with the x and I of the last Fx55, run while memory *)
(* is as that Fx55 left it, restores V0..Vx to their values at the store,  *)
(* whatever they were changed to in between.                               *)
BlockInMemory == I + FieldX(Fetched) < MemorySize

Block == {I + i : i \in 0..FieldX(Fetched)}

Storing == Fetching(15) /\ FieldKK(Fetched) = \h55 /\ BlockInMemory

Loading == Fetching(15) /\ FieldKK(Fetched) = \h65 /\ BlockInMemory

C19_BlockStoreLoadRoundTrip ==
    [][/\ Storing =>
            /\ host' = "loop"
            /\ \A i \in 0..FieldX(Fetched) : ByteAt(memory', I + i) = registers[i]
            /\ \A a \in (0..(MemorySize - 1)) \ Block :
                    ByteAt(memory', a) = ByteAt(memory, a)
            /\ registers' = registers
            /\ I' = I
       /\ Loading =>
            /\ host' = "loop"
            /\ \A i \in 0..FieldX(Fetched) : registers'[i] = ByteAt(memory, I + i)
            /\ \A i \in (FieldX(Fetched) + 1)..15 : registers'[i] = registers[i]
            /\ memory' = memory
            /\ I' = I
       /\ (Loading /\ stored # <<>> /\ stored[1][1] = I
                   /\ stored[1][2] = FieldX(Fetched)) =>
            \A i \in 0..FieldX(Fetched) : registers'[i] = stored[1][3][i]]_vars

(* F255 stored V0..V2 = 11, 22, 33 (hex) at 0x300, V0..V2 were then set to *)
(* AA, BB, CC, and F265 has brought the stored values back.                *)
C19_Witness ==
    /\ host = "loop"
    /\ opcode = \hF265
    /\ I = \h300
    /\ stored # <<>>
    /\ stored[1][3][0] = \h11
    /\ registers[0] = \h11 /\ registers[1] = \h22 /\ registers[2] = \h33
    /\ ByteAt(memory, \h300) = \h11
    /\ ByteAt(memory, \h302) = \h33

---------------------------------------------------------------------------
(* C20: drawFlag is monotonic: false after construction, it becomes true   *)
(* only in a cycle that executes 00E0 or Dxyn, and does so in the first    *)
(* such cycle that completes; once true no cycle and no turn of the host   *)
(* loop sets it back, so the host prints the frame after every cycle from  *)
(* then on.                                                                *)
DrawsOrClears == Fetched = \h00E0 \/ Family(Fetched) = 13

C20_DrawFlagMonotonic ==
    [][Fetches =>
          /\ (~drawFlag /\ drawFlag') => DrawsOrClears
          /\ (DrawsOrClears /\ host' = "loop") => drawFlag'
          /\ drawFlag => drawFlag'
          /\ (drawFlag /\ host' = "loop") => frame']_vars

=============================================================================
